---------------------------- MODULE Spec2Model ----------------------------
(***************************************************************************)
(* The iterative-deepening driver (Search), its redundant worker threads   *)
(* (abWrapper / ab / quiesce), the principal-variation reconstruction      *)
(* (lookupPv) and the timer (SearchTimeout) of search/search.go.           *)
(*                                                                         *)
(* Every worker owns an explicit call stack of ab and quiesce frames.  One *)
(* step of a worker performs one access to shared memory (the stop flag    *)
(* together with the halt channel, a transposition-table Get, a            *)
(* transposition-table Put) followed by all the thread-local code up to    *)
(* the next shared access.  The stop flag is a plain Go bool written and  *)
(* read without synchronisation: a worker's read may return the old value  *)
(* for as long as nothing orders it after the write (sees).  The driver    *)
(* reads the flag after receiving from every worker, and the workers of a  *)
(* depth are started after the driver's reads and writes, so those reads   *)
(* return the value last written.                                          *)
(***************************************************************************)
EXTENDS Integers, Sequences, FiniteSets, TLC

\* ------------------------------------------------------------------ bounds
MaxDepth == 2      \* deepest iteration the driver starts without a pending halt
MaxThreads == 2    \* largest value of DefaultSearchThreads that is explored

\* --------------------------------------------------------- program constants
negInf == -32766
posInf == 32766
QuiesceCutoffDepth == 5
Exact == 0
LowerBound == 1
UpperBound == 2

\* int16 two's-complement negation (the unary minus of lines 200, 201, 260)
Neg16(x) == IF x = -32768 THEN -32768 ELSE 0 - x

min(x, y) == IF x < y THEN x ELSE y

max(x, y) == IF x > y THEN x ELSE y

\* ------------------------------------------------- the position collaborator
\* A fixed finite game: positions, their legal moves in generation order, the
\* position each move leads to, which moves capture, the static evaluation
\* (from the side to move) and whether the side to move is in check.
Positions == {"R", "P", "C", "D", "N", "L", "M", "S", "A", "B", "Q", "E", "K", "X", "Y"}

\* "R" is a quiet root, "N" a root with a mate in one, "S" a stalemated root.
Roots == {"R", "N", "S"}

\* "A" is a root with two moves, the first to a position with two moves.
BranchRoots == Roots \cup {"A"}

\* "K" is a root whose only move leads into a sequence of captures and
\* recaptures (X, Y, X, ...) longer than the quiescence search follows.
QuietRoots == {"K", "R"}

NoPos == "none"

NullMove == 0

GenerateLegalMoves(b) ==
    CASE b = "R" -> <<1>>
      [] b = "P" -> <<3>>
      [] b = "C" -> <<5>>
      [] b = "D" -> <<6>>
      [] b = "N" -> <<8, 9>>
      [] b = "L" -> <<10>>
      [] b = "A" -> <<11, 12>>
      [] b = "B" -> <<13, 14>>
      [] b = "Q" -> <<15>>
      [] b = "E" -> <<16>>
      [] b = "K" -> <<20>>
      [] b = "X" -> <<21>>
      [] b = "Y" -> <<22>>
      [] OTHER   -> <<>>

Apply(b, m) ==
    CASE m = 1 -> "P"
      [] m = 3 -> "C"
      [] m = 5 -> "D"
      [] m = 6 -> "R"
      [] m = 8 -> "M"
      [] m = 9 -> "L"
      [] m = 10 -> "N"
      [] m = 11 -> "B"
      [] m = 12 -> "Q"
      [] m = 13 -> "C"
      [] m = 14 -> "E"
      [] m = 15 -> "C"
      [] m = 16 -> "D"
      [] m = 20 -> "X"
      [] m = 21 -> "Y"
      [] m = 22 -> "X"
      [] OTHER -> NoPos

isCapture(m, b) == m \in {3, 5, 21, 22}

Evaluate(b) ==
    CASE b = "R" -> 0
      [] b = "P" -> -5
      [] b = "C" -> 1
      [] b = "D" -> -3
      [] b = "N" -> 4
      [] b = "L" -> -4
      [] b = "M" -> -9
      [] b = "S" -> 0
      [] b = "A" -> 0
      [] b = "B" -> 2
      [] b = "Q" -> -1
      [] b = "E" -> -2
      [] b = "K" -> 0
      [] b = "X" -> -4
      [] b = "Y" -> -6
      [] OTHER   -> 0

InCheck(b) == b = "M"

IsLegal(b, m) == \E k \in 1..Len(GenerateLegalMoves(b)) : GenerateLegalMoves(b)[k] = m

\* ------------------------------------------------------------------- state
VARIABLES
    root,       \* the board handed to Search
    threads,    \* DefaultSearchThreads
    cache,      \* the transposition table: position -> entry
    stop,       \* *stop, the shared flag: the value last written
    sees,       \* per worker: its unsynchronised reads of *stop return TRUE
    tpc,        \* SearchTimeout: "new" (not yet called), "sleep", "send" (blocked in halt <- true), "done"
    cpc,        \* the protocol layer's own canceller: "off" (there is none),
                \* "idle", "send" (blocked in its send on halt), "done"
    dpc,        \* Search: "spawn", "recvMove", "recvEval", "check", "mateWait", "done"
    i,          \* the depth counter of Search
    thread,     \* index of the collection loop (0-based, line 112)
    moves,      \* moves[] of the current depth
    evals,      \* evals[] of the current depth
    lastMove,   \* lastMove of Search
    wpc,        \* per worker: "idle", "run", "sendMove", "sendEval", "exit"
    stack,      \* per worker: the call stack of ab / quiesce frames
    res,        \* per worker: the (eval, move) returned by the top-level ab, and
                \* whether it returned it because of cancellation
    infos,      \* the "info depth ..." lines printed so far, each with the value
                \* the stop flag had when it was printed
    bestmoves,  \* the "bestmove" lines printed so far
    diag,       \* an "inconsistent results/evals" line has been printed
    interrupted,\* depths at which some call returned early because of stop/halt
    lastAb,     \* per worker: position and score of the latest return of ab
    after       \* per worker: -1 until it has read *stop as true or received
                \* from halt in this depth, then the number of calls of ab and
                \* quiesce it has entered since
VARIABLES
    clock,      \* the call of CalculateAllowedTime that sets the timer: total
                \* material, ourtime, whether it has been made, and its result
    sender      \* per slot of moves[] / evals[]: the worker whose send supplied
                \* the move and the worker whose send supplied the eval (0: none)

vars == <<root, clock, sender, threads, cache, stop, sees, tpc, cpc, dpc, i, thread, moves, evals, lastMove,
          wpc, stack, res, infos, bestmoves, diag, interrupted, lastAb, after>>

Workers == 1..MaxThreads

NoClock == [material |-> 0, ourtime |-> 0, called |-> FALSE, panic |-> FALSE,
            allowed |-> 0]

NoEntry == [found |-> FALSE, move |-> NullMove, eval |-> 0, depth |-> 0,
            type |-> Exact, prov |-> FALSE]

NoRes == [eval |-> 0, move |-> NullMove, prov |-> FALSE]

NoAb == [b |-> NoPos, score |-> 0]

\* ---------------------------------------------------- the transposition table
\* transtable.Get / transtable.Put: one entry per position, a Put replaces it.
\* The field prov is history only: the frame that wrote the entry had received
\* a value from a call that returned early because of cancellation.
Get(b) == IF b \in Positions THEN cache[b] ELSE NoEntry

Put(b, m, e, d, t, p) ==
    [cache EXCEPT ![b] = [found |-> TRUE, move |-> m, eval |-> e, depth |-> d,
                          type |-> t, prov |-> p]]

\* --------------------------------------------------------------- call frames
\* alphaIn and betaIn are history only: the window the call was made with.
NewAb(b, alpha, beta, depth) ==
    [fn |-> "ab", pc |-> "entry", b |-> b, alpha |-> alpha, beta |-> beta,
     depth |-> depth, alpha0 |-> alpha, bestVal |-> negInf, bestMove |-> NullMove,
     mi |-> 0, standPat |-> 0, taint |-> FALSE, alphaIn |-> alpha, betaIn |-> beta]

NewQ(b, alpha, beta, depth) ==
    [fn |-> "q", pc |-> "qentry", b |-> b, alpha |-> alpha, beta |-> beta,
     depth |-> depth, alpha0 |-> alpha, bestVal |-> negInf, bestMove |-> NullMove,
     mi |-> 0, standPat |-> 0, taint |-> FALSE, alphaIn |-> alpha, betaIn |-> beta]

\* The outcome of the thread-local code that follows a shared access: the new
\* stack and, when the top-level ab has returned, its result.
Running(stk, ab) == [stk |-> stk, fin |-> FALSE, r |-> NoRes, ab |-> ab]

Finished(e, m, p, ab) ==
    [stk |-> <<>>, fin |-> TRUE, r |-> [eval |-> e, move |-> m, prov |-> p], ab |-> ab]

\* The single element of a singleton set.  The operators below bind their
\* arguments with {e : x \in {arg}} so that each argument is evaluated once.
The(S) == CHOOSE x \in S : TRUE

\* lines 198-200: apply moves[f.mi] and call ab on the child with the negated window
CallChild(rest0, f0) ==
    The({ Running(rest \o <<f, NewAb(Apply(f.b, GenerateLegalMoves(f.b)[f.mi]),
                                    Neg16(f.beta), Neg16(f.alpha), f.depth - 1)>>, NoAb)
          : rest \in {rest0}, f \in {f0} })

\* index of the first capture after position k in the move list of b, 0 if none
NextCapture(b, k) ==
    LET ms == GenerateLegalMoves(b)
        c  == {j \in (k + 1)..Len(ms) : isCapture(ms[j], b)}
    IN  IF c = {} THEN 0 ELSE CHOOSE j \in c : \A h \in c : j <= h

RECURSIVE Return(_, _, _, _)
RECURSIVE Deliver(_, _, _)

\* lines 255-269: the capture loop of quiesce, resumed after move f.mi
QLoop(rest0, f0) ==
    The({ IF j = 0
          THEN Return(rest, f.alpha, NullMove, f.taint)
          ELSE Running(rest \o <<[f EXCEPT !.mi = j, !.pc = "qloop"],
                                 NewQ(Apply(f.b, GenerateLegalMoves(f.b)[j]),
                                      Neg16(f.beta), Neg16(f.alpha), f.depth - 1)>>, NoAb)
          : rest \in {rest0}, f \in {f0}, j \in {NextCapture(f0.b, f0.mi)} })

QBodyNoCutoff(rest0, f0) ==
    The({ IF f.standPat >= f.beta
            THEN Return(rest, f.beta, NullMove, FALSE)
          ELSE IF Len(GenerateLegalMoves(f.b)) = 0
            THEN Return(rest, negInf, NullMove, FALSE)
          ELSE QLoop(rest, [f EXCEPT !.alpha = max(f.alpha, f.standPat), !.mi = 0])
          : rest \in {rest0}, f \in {f0} })

\* lines 242-254: quiesce once standPat is known
QBody(rest0, f0) ==
    The({ IF f.depth < 0 - QuiesceCutoffDepth
            THEN Return(rest, f.standPat, NullMove, FALSE)
          ELSE IF f.standPat >= f.beta
            THEN Return(rest, f.beta, NullMove, FALSE)
          ELSE IF Len(GenerateLegalMoves(f.b)) = 0
            THEN Return(rest, negInf, NullMove, FALSE)
          ELSE QLoop(rest, [f EXCEPT !.alpha = max(f.alpha, f.standPat), !.mi = 0])
          : rest \in {rest0}, f \in {f0} })

\* A call returns (score, move) to the frames below it; prov says that the value
\* comes from a call cut short by cancellation.
Return(rest, score, move, prov) ==
    IF rest = <<>> THEN Finished(score, move, prov, NoAb) ELSE Deliver(rest, score, prov)

\* lines 201-210: the caller f, an ab in its move loop, receives the child's score
AbReceive(rest0, f0, score, prov) ==
    The({ IF g.alpha >= g.beta \/ g.mi = Len(GenerateLegalMoves(g.b))
          THEN Running(Append(rest, [g EXCEPT !.pc = "poststop"]), NoAb)
          ELSE CallChild(rest, [g EXCEPT !.mi = g.mi + 1])
          : rest \in {rest0},
            g \in {[f0 EXCEPT !.bestMove = IF Neg16(score) > f0.bestVal
                                           THEN GenerateLegalMoves(f0.b)[f0.mi] ELSE @,
                              !.bestVal = IF Neg16(score) > f0.bestVal
                                          THEN Neg16(score) ELSE @,
                              !.alpha = max(f0.alpha, Neg16(score)),
                              !.taint = f0.taint \/ prov]} })

\* lines 260-267: the caller f, a quiesce in its capture loop, receives the child's score
QReceive(rest0, f0, score, prov) ==
    The({ IF s >= f.beta THEN Return(rest, f.beta, NullMove, f.taint \/ prov)
          ELSE QLoop(rest, [f EXCEPT !.alpha = max(f.alpha, s), !.taint = f.taint \/ prov])
          : rest \in {rest0}, f \in {f0}, s \in {Neg16(score)} })

\* The caller on top of stk receives score from the call it made.
Deliver(stk0, score0, prov0) ==
    The({ IF f.fn = "ab" /\ f.pc = "inq"
          THEN \* line 187: return quiesce(...), 0
               [Return(rest, score, NullMove, f.taint \/ prov)
                   EXCEPT !.ab = [b |-> f.b, score |-> score]]
          ELSE IF f.fn = "ab" THEN AbReceive(rest, f, score, prov)
          ELSE QReceive(rest, f, score, prov)
          : f \in {stk0[Len(stk0)]}, rest \in {SubSeq(stk0, 1, Len(stk0) - 1)},
            score \in {score0}, prov \in {prov0} })

\* ------------------------------------------------------------------ workers
Top(w) == stack[w][Len(stack[w])]

Rest(w) == SubSeq(stack[w], 1, Len(stack[w]) - 1)

WrapperSendsEvalFirst == <<"sendEval", "sendMove">>

\* lines 155-156: abWrapper sends the move, then the eval
WrapperSends == <<"sendMove", "sendEval">>

\* where abWrapper stands after the send it was blocked in has been received
AfterSend(p) == IF p = WrapperSends[1] THEN WrapperSends[2] ELSE "exit"

\* The worker's state after a step whose thread-local continuation is o.  When
\* the top-level ab has returned, abWrapper goes on to its first send.
Advance(w, o, ab) ==
    \E x \in {o} :
        /\ stack' = [stack EXCEPT ![w] = x.stk]
        /\ wpc' = [wpc EXCEPT ![w] = IF x.fin THEN WrapperSends[1] ELSE "run"]
        /\ res' = [res EXCEPT ![w] = IF x.fin THEN x.r ELSE @]
        /\ lastAb' = [lastAb EXCEPT ![w] = IF ab # NoAb THEN ab
                                           ELSE IF x.ab # NoAb THEN x.ab ELSE @]

\* line 163: the halt case of the select is ready iff a sender is blocked on halt
HaltReady == tpc = "send" \/ cpc = "send"

\* lines 163, 142: the receive from halt completes the send of one blocked sender
HaltReceive ==
    \/ tpc = "send" /\ tpc' = "done" /\ UNCHANGED cpc
    \/ cpc = "send" /\ cpc' = "done" /\ UNCHANGED tpc

\* lines 161-170: the cancellation poll at the entry of ab
AbEntry(w) ==
    /\ wpc[w] = "run" /\ Top(w).fn = "ab" /\ Top(w).pc = "entry"
    /\ LET f == Top(w)
       IN  IF HaltReady
           THEN /\ HaltReceive
                /\ stop' = TRUE
                /\ sees' = [sees EXCEPT ![w] = TRUE]
                /\ after' = [after EXCEPT ![w] = 0]
                /\ interrupted' = interrupted \cup {i}
                /\ Advance(w, Return(Rest(w), f.alpha, NullMove, TRUE),
                           [b |-> f.b, score |-> f.alpha])
           ELSE IF sees[w]
           THEN /\ interrupted' = interrupted \cup {i}
                /\ after' = [after EXCEPT ![w] = @ + 1]
                /\ Advance(w, Return(Rest(w), f.alpha, NullMove, TRUE),
                           [b |-> f.b, score |-> f.alpha])
                /\ UNCHANGED <<tpc, cpc, stop, sees>>
           ELSE /\ Advance(w, Running(Append(Rest(w), [f EXCEPT !.pc = "get"]), NoAb), NoAb)
                /\ UNCHANGED <<tpc, cpc, stop, sees, interrupted, after>>
    /\ UNCHANGED <<root, clock, sender, threads, cache, dpc, i, thread, moves, evals, lastMove,
                   infos, bestmoves, diag>>

\* lines 172-196: the table probe, then either quiesce (depth 0) or the first child
AbGet(w) ==
    /\ wpc[w] = "run" /\ Top(w).fn = "ab" /\ Top(w).pc = "get"
    /\ LET f   == Top(w)
           e   == Get(f.b)
           hit == e.found /\ e.depth >= f.depth
           a   == IF hit /\ e.type = LowerBound THEN max(f.alpha, e.eval) ELSE f.alpha
           bt  == IF hit /\ e.type = UpperBound THEN min(f.beta, e.eval) ELSE f.beta
           ms  == GenerateLegalMoves(f.b)
       IN  IF hit /\ (e.type = Exact \/ a >= bt)
           THEN Advance(w, Return(Rest(w), e.eval, e.move, f.taint),
                        [b |-> f.b, score |-> e.eval])
           ELSE IF f.depth = 0
           THEN Advance(w, Running(Rest(w) \o <<[f EXCEPT !.alpha = a, !.beta = bt,
                                                          !.pc = "inq"],
                                                NewQ(f.b, a, bt, f.depth)>>, NoAb), NoAb)
           ELSE LET g == [f EXCEPT !.alpha = a, !.beta = bt, !.alpha0 = a,
                                   !.bestVal = negInf,
                                   !.bestMove = IF Len(ms) > 0 THEN ms[1] ELSE NullMove]
                IN  IF Len(ms) = 0
                    THEN Advance(w, Running(Append(Rest(w), [g EXCEPT !.pc = "poststop"]),
                                            NoAb), NoAb)
                    ELSE Advance(w, CallChild(Rest(w), [g EXCEPT !.mi = 1, !.pc = "loop"]),
                                 NoAb)
    /\ UNCHANGED <<root, clock, sender, threads, cache, stop, sees, tpc, cpc, dpc, i, thread, moves, evals,
                   lastMove, infos, bestmoves, diag, interrupted, after>>

LoopStoppedNever(w) == FALSE

\* line 213: the stop flag as worker w reads it after the move loop
LoopStopped(w) == sees[w]

\* lines 213-215: return the current best without a Put when stop is set
AbPostStop(w) ==
    /\ wpc[w] = "run" /\ Top(w).fn = "ab" /\ Top(w).pc = "poststop"
    /\ LET f == Top(w)
       IN  IF LoopStopped(w)
           THEN /\ interrupted' = interrupted \cup {i}
                /\ after' = [after EXCEPT ![w] = IF @ < 0 THEN 0 ELSE @]
                /\ Advance(w, Return(Rest(w), f.bestVal, f.bestMove, TRUE),
                           [b |-> f.b, score |-> f.bestVal])
           ELSE /\ Advance(w, Running(Append(Rest(w), [f EXCEPT !.pc = "put"]), NoAb), NoAb)
                /\ UNCHANGED <<interrupted, after>>
    /\ UNCHANGED <<root, clock, sender, threads, cache, stop, sees, tpc, cpc, dpc, i, thread, moves, evals,
                   lastMove, infos, bestmoves, diag>>

\* lines 217-224: the bound type of a completed node
NodeType(bestVal, alpha0, beta) ==
    IF bestVal <= alpha0 THEN UpperBound
    ELSE IF bestVal >= beta THEN LowerBound
    ELSE Exact

\* lines 217-226: store the node and return it
AbPut(w) ==
    /\ wpc[w] = "run" /\ Top(w).fn = "ab" /\ Top(w).pc = "put"
    /\ LET f == Top(w)
       IN  /\ cache' = Put(f.b, f.bestMove, f.bestVal, f.depth,
                           NodeType(f.bestVal, f.alpha0, f.beta), f.taint)
           /\ Advance(w, Return(Rest(w), f.bestVal, f.bestMove, f.taint),
                      [b |-> f.b, score |-> f.bestVal])
    /\ UNCHANGED <<root, clock, sender, threads, stop, sees, tpc, cpc, dpc, i, thread, moves, evals,
                   lastMove, infos, bestmoves, diag, interrupted, after>>

\* lines 230-233: quiesce reads the stop flag
QEntry(w) ==
    /\ wpc[w] = "run" /\ Top(w).fn = "q" /\ Top(w).pc = "qentry"
    /\ LET f == Top(w)
       IN  IF sees[w]
           THEN /\ interrupted' = interrupted \cup {i}
                /\ after' = [after EXCEPT ![w] = @ + 1]
                /\ Advance(w, Return(Rest(w), f.alpha, NullMove, TRUE), NoAb)
           ELSE /\ Advance(w, Running(Append(Rest(w), [f EXCEPT !.pc = "qget"]), NoAb), NoAb)
                /\ UNCHANGED <<interrupted, after>>
    /\ UNCHANGED <<root, clock, sender, threads, cache, stop, sees, tpc, cpc, dpc, i, thread, moves, evals,
                   lastMove, infos, bestmoves, diag>>

\* lines 235-237: the table probe of quiesce; an Exact entry is the stand-pat score
QGet(w) ==
    /\ wpc[w] = "run" /\ Top(w).fn = "q" /\ Top(w).pc = "qget"
    /\ LET f == Top(w)
           e == Get(f.b)
       IN  IF e.found /\ e.type = Exact
           THEN Advance(w, QBody(Rest(w), [f EXCEPT !.standPat = e.eval]), NoAb)
           ELSE Advance(w, Running(Append(Rest(w), [f EXCEPT !.pc = "qput"]), NoAb), NoAb)
    /\ UNCHANGED <<root, clock, sender, threads, cache, stop, sees, tpc, cpc, dpc, i, thread, moves, evals,
                   lastMove, infos, bestmoves, diag, interrupted, after>>

\* lines 239-240: evaluate and store the stand-pat score, then lines 242-259
QPut(w) ==
    /\ wpc[w] = "run" /\ Top(w).fn = "q" /\ Top(w).pc = "qput"
    /\ LET f == Top(w)
           sp == Evaluate(f.b)
       IN  /\ cache' = Put(f.b, NullMove, sp, 0, Exact, FALSE)
           /\ Advance(w, QBody(Rest(w), [f EXCEPT !.standPat = sp]), NoAb)
    /\ UNCHANGED <<root, clock, sender, threads, stop, sees, tpc, cpc, dpc, i, thread, moves, evals,
                   lastMove, infos, bestmoves, diag, interrupted, after>>

\* *stop is read and written without synchronisation: a write by another
\* goroutine reaches a running worker at some later moment, or never during the
\* depth.  From then on the worker's reads return TRUE.
Observe(w) ==
    /\ wpc[w] = "run" /\ stop /\ ~sees[w]
    /\ sees' = [sees EXCEPT ![w] = TRUE]
    /\ UNCHANGED <<root, clock, sender, threads, cache, stop, tpc, cpc, dpc, i, thread, moves, evals,
                   lastMove, wpc, stack, res, infos, bestmoves, diag, interrupted,
                   lastAb, after>>

WorkerStep(w) ==
    \/ AbEntry(w)
    \/ AbGet(w)
    \/ AbPostStop(w)
    \/ AbPut(w)
    \/ QEntry(w)
    \/ QGet(w)
    \/ QPut(w)

\* -------------------------------------------------------------- lookupPv
\* lines 26-50: the loop of lookupPv, with k iterations done so far on board b
RECURSIVE PvLoop(_, _, _)
PvLoop(b, pv, k) ==
    IF k < 0 THEN pv
    ELSE LET e == Get(b)
         IN  IF ~e.found \/ e.depth = 0 THEN pv
             ELSE IF IsLegal(b, e.move)
                  THEN PvLoop(Apply(b, e.move), Append(pv, e.move), k - 1)
                  ELSE pv

lookupPvTwoMore(b1, startmove, depth) == PvLoop(b1, <<startmove>>, depth + 1)

\* lines 23-52; b1 is the board after b.Apply(startmove)
lookupPv(b1, startmove, depth) == PvLoop(b1, <<startmove>>, depth)

\* The boards b.Apply(m) can leave behind: the successor for a legal move; for a
\* move that is not legal on b the library gives no guarantee, any board may result.
Applied(b, m) == IF IsLegal(b, m) THEN {Apply(b, m)} ELSE Positions \cup {NoPos}

\* ------------------------------------------------------------------ Search
\* the int8 increment of the loop header (line 98)
Inc8(x) == IF x = 127 THEN -128 ELSE x + 1

RootWindowWholeInt16 == <<negInf - 2, posInf + 1>>

\* line 109: the window (alpha, beta) every top-level ab is started with
RootWindow == <<negInf, posInf>>

\* lines 99-110: a depth iteration starts its threads.  The model starts depths
\* up to MaxDepth, and depth MaxDepth + 1 only when a halt is pending.
Spawn ==
    /\ dpc = "spawn"
    /\ i <= MaxDepth \/ (i = MaxDepth + 1 /\ HaltReady)
    /\ wpc' = [w \in Workers |-> IF w <= threads THEN "run" ELSE "idle"]
    /\ stack' = [w \in Workers |->
                   IF w <= threads THEN <<NewAb(root, RootWindow[1], RootWindow[2], i)>>
                                   ELSE <<>>]
    /\ res' = [w \in Workers |-> NoRes]
    /\ lastAb' = [w \in Workers |-> NoAb]
    /\ moves' = [k \in 1..threads |-> NullMove]
    /\ evals' = [k \in 1..threads |-> 0]
    /\ thread' = 0
    /\ dpc' = "recvMove"
    /\ sees' = [w \in Workers |-> stop]
    /\ after' = [w \in Workers |-> -1]
    /\ sender' = [k \in 1..threads |-> [move |-> 0, eval |-> 0]]
    /\ UNCHANGED <<root, clock, threads, cache, stop, tpc, cpc, i, lastMove, infos, bestmoves,
                   diag, interrupted>>

\* line 113, first receive: <-movesChan from a worker blocked in moveChan <- move
RecvMove(w) ==
    /\ dpc = "recvMove" /\ wpc[w] = "sendMove"
    /\ moves' = [moves EXCEPT ![thread + 1] = res[w].move]
    /\ wpc' = [wpc EXCEPT ![w] = AfterSend("sendMove")]
    /\ dpc' = "recvEval"
    /\ sender' = [sender EXCEPT ![thread + 1].move = w]
    /\ UNCHANGED <<root, clock, threads, cache, stop, sees, tpc, cpc, i, thread, evals, lastMove,
                   stack, res, infos, bestmoves, diag, interrupted, lastAb, after>>

RecvEvalFromAnySender(w) ==
    /\ dpc = "recvEval" /\ wpc[w] \in {"sendMove", "sendEval"}
    /\ evals' = [evals EXCEPT ![thread + 1] = res[w].eval]
    /\ wpc' = [wpc EXCEPT ![w] = AfterSend(wpc[w])]
    /\ thread' = thread + 1
    /\ dpc' = IF thread + 1 = threads THEN "check" ELSE "recvMove"
    /\ sender' = [sender EXCEPT ![thread + 1].eval = w]
    /\ UNCHANGED <<root, clock, threads, cache, stop, sees, tpc, cpc, i, moves, lastMove,
                   stack, res, infos, bestmoves, diag, interrupted, lastAb, after>>

\* line 113, second receive: <-evalsChan from a worker blocked in evalChan <- eval
RecvEval(w) ==
    /\ dpc = "recvEval" /\ wpc[w] = "sendEval"
    /\ evals' = [evals EXCEPT ![thread + 1] = res[w].eval]
    /\ wpc' = [wpc EXCEPT ![w] = AfterSend("sendEval")]
    /\ thread' = thread + 1
    /\ dpc' = IF thread + 1 = threads THEN "check" ELSE "recvMove"
    /\ sender' = [sender EXCEPT ![thread + 1].eval = w]
    /\ UNCHANGED <<root, clock, threads, cache, stop, sees, tpc, cpc, i, moves, lastMove,
                   stack, res, infos, bestmoves, diag, interrupted, lastAb, after>>

\* lines 116-125: the sanity check finds two neighbouring results that differ
Inconsistent ==
    \E k \in 1..(threads - 1) : moves[k] # moves[k + 1] \/ evals[k] # evals[k + 1]

DepthTruncatedNever == FALSE

\* line 128: the stop flag as read when the depth's results have been collected
DepthTruncated == stop

IsMateScoreNever(e) == FALSE

\* line 136: the score is a mate score
IsMateScore(e) == e <= negInf \/ e >= posInf

ReportedMoveForgotten(move) == NullMove

\* line 135: what lastMove becomes when a depth is reported
ReportedMove(move) == move

\* lines 116-141: compare the results, then either announce lastMove and return,
\* or print the info line, remember the move and go to the next depth or to the
\* wait for halt
Check ==
    /\ dpc = "check"
    /\ diag' = (diag \/ Inconsistent)
    /\ IF DepthTruncated
       THEN /\ bestmoves' = Append(bestmoves, lastMove)
            /\ dpc' = "done"
            /\ UNCHANGED <<i, lastMove, infos>>
       ELSE /\ \E b1 \in Applied(root, moves[1]) :
                  infos' = Append(infos, [depth |-> i, score |-> evals[1],
                                          pv |-> lookupPv(b1, moves[1], i),
                                          stopped |-> stop])
            /\ lastMove' = ReportedMove(moves[1])
            /\ IF IsMateScore(evals[1])
               THEN dpc' = "mateWait" /\ i' = i
               ELSE dpc' = "spawn" /\ i' = Inc8(i)
            /\ UNCHANGED bestmoves
    /\ UNCHANGED <<root, clock, sender, threads, cache, stop, sees, tpc, cpc, thread, moves, evals,
                   wpc, stack, res, interrupted, lastAb, after>>

\* lines 142-144: after a mate score, receive from halt, then announce lastMove
MateWait ==
    /\ dpc = "mateWait"
    /\ HaltReceive
    /\ stop' = TRUE
    /\ bestmoves' = Append(bestmoves, lastMove)
    /\ dpc' = "done"
    /\ UNCHANGED <<root, clock, sender, threads, cache, sees, i, thread, moves, evals, lastMove,
                   wpc, stack, res, infos, diag, interrupted, lastAb, after>>

\* ----------------------------------------------------------- SearchTimeout
\* lines 85-88: the sleep ends; halt <- true is attempted unless *alreadyStopped.
\* The read of *alreadyStopped is not synchronised with the write of line 164:
\* when the flag is set it returns either value.
TimerWake ==
    /\ tpc = "sleep"
    /\ tpc' \in (IF stop THEN {"done", "send"} ELSE {"send"})
    /\ UNCHANGED <<root, clock, sender, threads, cache, stop, sees, cpc, dpc, i, thread, moves, evals, lastMove,
                   wpc, stack, res, infos, bestmoves, diag, interrupted, lastAb, after>>

\* ------------------------------------------------------------ specification
\* Search is called on a root board with DefaultSearchThreads threads, an empty
\* table and a clear stop flag; SearchTimeout sleeps, or returns at once (ms = 0).
InitSearch ==
    /\ threads \in 1..MaxThreads
    /\ stop = FALSE
    /\ sees = [w \in Workers |-> FALSE]
    /\ tpc \in {"sleep", "done"}
    /\ dpc = "spawn"
    /\ i = 1
    /\ thread = 0
    /\ moves = [k \in 1..threads |-> NullMove]
    /\ evals = [k \in 1..threads |-> 0]
    /\ lastMove = NullMove
    /\ wpc = [w \in Workers |-> "idle"]
    /\ stack = [w \in Workers |-> <<>>]
    /\ res = [w \in Workers |-> NoRes]
    /\ infos = <<>>
    /\ bestmoves = <<>>
    /\ diag = FALSE
    /\ interrupted = {}
    /\ lastAb = [w \in Workers |-> NoAb]
    /\ after = [w \in Workers |-> -1]
    /\ sender = [k \in 1..threads |-> [move |-> 0, eval |-> 0]]
    /\ clock = NoClock

Init ==
    /\ root \in Roots
    /\ cpc = "off"
    /\ cache = [p \in Positions |-> NoEntry]
    /\ InitSearch

\* Search called on a root of the larger set.
BranchInit ==
    /\ root \in BranchRoots
    /\ cpc = "off"
    /\ cache = [p \in Positions |-> NoEntry]
    /\ InitSearch

\* The table is never cleared by Search: a later call finds the entries of the
\* earlier ones.  Here position R has the entry an earlier search left for it
\* when it reached R one ply above the horizon with beta = 3 and the line R-P-C-D
\* failed high: (move 1, score 3, depth 1, LowerBound).
WarmCache ==
    [p \in Positions |->
        IF p = "R" THEN [found |-> TRUE, move |-> 1, eval |-> 3, depth |-> 1,
                         type |-> LowerBound, prov |-> FALSE]
        ELSE NoEntry]

WarmInit ==
    /\ root \in Roots
    /\ cpc = "off"
    /\ cache = WarmCache
    /\ InitSearch

Next ==
    \/ \E w \in Workers : WorkerStep(w)
    \/ \E w \in Workers : Observe(w)
    \/ Spawn
    \/ \E w \in Workers : RecvMove(w)
    \/ \E w \in Workers : RecvEval(w)
    \/ Check
    \/ MateWait
    \/ TimerWake

Spec == Init /\ [][Next]_vars

BranchSpec == BranchInit /\ [][Next]_vars

\* ------------------------------------------------ search never cancelled
\* Search with no timer (SearchTimeout is given ms = 0) and no other canceller.
QuietInit ==
    /\ root \in QuietRoots
    /\ cpc = "off"
    /\ cache = [p \in Positions |-> NoEntry]
    /\ InitSearch
    /\ tpc = "done"

\* The steps that need no signal on halt.
QuietNext ==
    \/ \E w \in Workers : WorkerStep(w)
    \/ Spawn
    \/ \E w \in Workers : RecvMove(w)
    \/ \E w \in Workers : RecvEval(w)
    \/ Check

\* The Go scheduler runs a goroutine that is able to run.
QuietSpec == QuietInit /\ [][QuietNext]_vars /\ WF_vars(QuietNext)

\* ------------------------------------------------- a second canceller
\* The protocol layer cancels a search by sending on halt itself, once, at a
\* moment of its choosing.
CancelOffer ==
    /\ cpc = "idle"
    /\ cpc' = "send"
    /\ UNCHANGED <<root, clock, sender, threads, cache, stop, sees, tpc, dpc, i, thread, moves, evals,
                   lastMove, wpc, stack, res, infos, bestmoves, diag, interrupted,
                   lastAb, after>>

CancelInit ==
    /\ root \in Roots
    /\ cpc = "idle"
    /\ cache = [p \in Positions |-> NoEntry]
    /\ InitSearch

CancelNext == Next \/ CancelOffer

CancelSpec == CancelInit /\ [][CancelNext]_vars

\* ---------------------------------------------------- lookupPv on its own
\* What the table can hold for position p when lookupPv reads it: nothing, or
\* an entry of any depth whose move is the legal move of p or the null move.
PvEntries(p) ==
    {NoEntry} \cup
    {[found |-> TRUE, move |-> m, eval |-> 0, depth |-> d, type |-> Exact, prov |-> FALSE] :
        m \in {GenerateLegalMoves(p)[1], NullMove}, d \in 0..MaxDepth}

\* lookupPv is about to be called (line 132) for root R, whose line R-P-C-D-R
\* repeats, with best move 1, a depth of 1..MaxDepth and any such table.
PvInit ==
    /\ root = "R"
    /\ \E eR \in PvEntries("R"), eP \in PvEntries("P"),
          eC \in PvEntries("C"), eD \in PvEntries("D") :
            cache = [p \in Positions |->
                        CASE p = "R" -> eR [] p = "P" -> eP [] p = "C" -> eC
                          [] p = "D" -> eD [] OTHER -> NoEntry]
    /\ i \in 1..MaxDepth
    /\ threads = 1
    /\ moves = <<GenerateLegalMoves("R")[1]>>
    /\ evals = <<0>>
    /\ dpc = "pv"
    /\ tpc = "done"
    /\ cpc = "off"
    /\ stop = FALSE
    /\ sees = [w \in Workers |-> FALSE]
    /\ thread = 0
    /\ lastMove = NullMove
    /\ wpc = [w \in Workers |-> "exit"]
    /\ stack = [w \in Workers |-> <<>>]
    /\ res = [w \in Workers |-> NoRes]
    /\ infos = <<>>
    /\ bestmoves = <<>>
    /\ diag = FALSE
    /\ interrupted = {}
    /\ lastAb = [w \in Workers |-> NoAb]
    /\ after = [w \in Workers |-> -1]
    /\ sender = [k \in 1..threads |-> [move |-> 0, eval |-> 0]]
    /\ clock = NoClock

\* line 132: the info line with the principal variation lookupPv returns
PvReport ==
    /\ dpc = "pv"
    /\ infos' = <<[depth |-> i, score |-> evals[1],
                   pv |-> lookupPv(Apply(root, moves[1]), moves[1], i),
                   stopped |-> stop]>>
    /\ dpc' = "done"
    /\ UNCHANGED <<root, clock, sender, threads, cache, stop, sees, tpc, cpc, i, thread, moves, evals,
                   lastMove, wpc, stack, res, bestmoves, diag, interrupted, lastAb,
                   after>>

PvSpec == PvInit /\ [][PvReport]_vars

\* ------------------------------------------------------ the time allowance
\* Go's integer division truncates toward zero (b > 0 here).
GoDiv(a, b) == IF a >= 0 THEN a \div b ELSE 0 - ((0 - a) \div b)

\* lines 56-68: EstimateHalfmovesLeft, as a function of the total material
\* eval.CountMaterial reports for the two sides; int() truncates
EstimateHalfmovesLeft(totalMaterial) ==
    IF totalMaterial < 2000 THEN GoDiv(totalMaterial, 100) + 10
    ELSE IF totalMaterial <= 6000 THEN GoDiv(3 * totalMaterial, 800) + 22
    ELSE GoDiv(5 * totalMaterial, 400) - 30

\* line 71: the division panics when the divisor is 0
DividesByZero(totalMaterial) == EstimateHalfmovesLeft(totalMaterial) = 0

\* lines 70-76
CalculateAllowedTime(totalMaterial, ourtime) ==
    The({ IF ourtime < 0 \/ result < 0 THEN 100 ELSE result
          : result \in {GoDiv(ourtime, EstimateHalfmovesLeft(totalMaterial))} })

\* Total material of the two sides: bare kings, endgames, the branch
\* boundaries of EstimateHalfmovesLeft, the starting position, promoted queens.
Materials == {0, 100, 500, 1900, 1999, 2000, 2001, 4000, 6000, 6001, 7800, 9400}

\* Remaining clock times in milliseconds.
ClockTimes == {-60000, -1, 0, 1, 9, 10, 11, 99, 1000, 60000}

TimeInit ==
    /\ root = "R"
    /\ cpc = "off"
    /\ cache = [p \in Positions |-> NoEntry]
    /\ threads = 1
    /\ stop = FALSE
    /\ sees = [w \in Workers |-> FALSE]
    /\ tpc = "new"
    /\ dpc = "spawn"
    /\ i = 1
    /\ thread = 0
    /\ moves = [k \in 1..threads |-> NullMove]
    /\ evals = [k \in 1..threads |-> 0]
    /\ lastMove = NullMove
    /\ wpc = [w \in Workers |-> "idle"]
    /\ stack = [w \in Workers |-> <<>>]
    /\ res = [w \in Workers |-> NoRes]
    /\ infos = <<>>
    /\ bestmoves = <<>>
    /\ diag = FALSE
    /\ interrupted = {}
    /\ lastAb = [w \in Workers |-> NoAb]
    /\ after = [w \in Workers |-> -1]
    /\ sender = [k \in 1..threads |-> [move |-> 0, eval |-> 0]]
    /\ \E m \in Materials, t \in ClockTimes :
          clock = [NoClock EXCEPT !.material = m, !.ourtime = t]

\* lines 70-76, 81-85: the allowance is computed and handed to SearchTimeout,
\* which returns at once when it is 0 and otherwise goes to sleep
StartTimer ==
    /\ tpc = "new"
    /\ clock' = [clock EXCEPT
                   !.called = TRUE,
                   !.panic = DividesByZero(clock.material),
                   !.allowed = IF DividesByZero(clock.material) THEN 0
                               ELSE CalculateAllowedTime(clock.material, clock.ourtime)]
    /\ tpc' = IF DividesByZero(clock.material) THEN "new"
              ELSE IF CalculateAllowedTime(clock.material, clock.ourtime) = 0
                THEN "done" ELSE "sleep"
    /\ UNCHANGED <<root, sender, threads, cache, stop, sees, cpc, dpc, i, thread,
                   moves, evals, lastMove, wpc, stack, res, infos, bestmoves, diag,
                   interrupted, lastAb, after>>

TimeSpec == TimeInit /\ [][StartTimer]_vars

\* ------------------------------------------------------ the depth counter
\* The loop counter of Search over iterations that are neither cancelled nor
\* end with a mate score: whatever the workers return, such an iteration ends
\* at the i++ of line 98 and the next one passes the new i to abWrapper.
DepthInit ==
    /\ root = "R"
    /\ cpc = "off"
    /\ cache = [p \in Positions |-> NoEntry]
    /\ InitSearch
    /\ threads = 1
    /\ tpc = "done"

\* lines 98, 109: one iteration that reaches the end of the loop body
NextDepth ==
    /\ dpc = "spawn"
    /\ ~stop
    /\ i' = Inc8(i)
    /\ UNCHANGED <<root, clock, sender, threads, cache, stop, sees, tpc, cpc, dpc, thread, moves,
                   evals, lastMove, wpc, stack, res, infos, bestmoves, diag,
                   interrupted, lastAb, after>>

DepthSpec == DepthInit /\ [][NextDepth]_vars

\* Search called with the table an earlier search has left behind.
WarmSpec == WarmInit /\ [][Next]_vars

\* The steps of the goroutines of the search: the workers and the driver.
SearchNext ==
    \/ \E w \in Workers : WorkerStep(w)
    \/ Spawn
    \/ \E w \in Workers : RecvMove(w)
    \/ \E w \in Workers : RecvEval(w)
    \/ Check
    \/ MateWait

\* The Go scheduler runs a goroutine that is able to run: as long as some
\* goroutine of the search can take a step, one of them eventually does.  The
\* timer is under no obligation to fire.
FairSpec == Spec /\ WF_vars(SearchNext)

\* ------------------------------------------------------------------ claims
\* C1: Search never prints the per-depth info line for a depth in which a
\* worker's search was cut short by cancellation, nor for a depth whose
\* results were collected with the stop flag set.
C1_InterruptedDepthNotReported ==
    \A k \in 1..Len(infos) : infos[k].depth \notin interrupted /\ ~infos[k].stopped

\* A depth after the first was cut short and Search has returned.
C1_Witness == dpc = "done" /\ interrupted # {} /\ Len(infos) >= 1

\* C2: no entry of the table was written by a node that had received a value
\* from a call cut short by cancellation.
C2_NoProvisionalPut == \A p \in Positions : cache[p].found => ~cache[p].prov

\* A top-level ab whose move loop was affected by cancellation has returned its
\* current best (line 214) and the table holds no entry of that depth for the root.
C2_Witness ==
    \E w \in Workers :
        /\ wpc[w] = "sendMove" /\ res[w].prov /\ res[w].move # NullMove
        /\ ~(cache[root].found /\ cache[root].depth = i)

\* C3: with more than one worker, every depth that is collected with the stop
\* flag clear has the same move and the same score from all workers.
C3_WorkersAgree == (dpc = "check" /\ threads > 1 /\ ~stop) => ~Inconsistent

\* The reference values of C4: the capture search of a position with neither
\* table nor cancellation, and the depth-d negamax value built on it.
RECURSIVE QValue(_, _, _, _)
RECURSIVE QValueLoop(_, _, _, _, _)
QValueLoop(b, alpha, beta, depth, k) ==
    LET j == NextCapture(b, k)
    IN  IF j = 0 THEN alpha
        ELSE LET s == Neg16(QValue(Apply(b, GenerateLegalMoves(b)[j]),
                                   Neg16(beta), Neg16(alpha), depth - 1))
             IN  IF s >= beta THEN beta
                 ELSE QValueLoop(b, max(alpha, s), beta, depth, j)

QValue(b, alpha, beta, depth) ==
    LET sp == Evaluate(b)
    IN  IF depth < 0 - QuiesceCutoffDepth THEN sp
        ELSE IF sp >= beta THEN beta
        ELSE IF Len(GenerateLegalMoves(b)) = 0 THEN negInf
        ELSE QValueLoop(b, max(alpha, sp), beta, depth, 0)

RECURSIVE SetMax(_)
SetMax(S) ==
    LET x == CHOOSE y \in S : TRUE
    IN  IF S = {x} THEN x ELSE max(x, SetMax(S \ {x}))

RECURSIVE Negamax(_, _)
Negamax(b, d) ==
    LET ms == GenerateLegalMoves(b)
    IN  IF d = 0 THEN QValue(b, negInf, posInf, 0)
        ELSE IF Len(ms) = 0 THEN negInf
        ELSE SetMax({Neg16(Negamax(Apply(b, ms[k]), d - 1)) : k \in 1..Len(ms)})

BoundHolds(e, v) ==
    /\ e.type = Exact => e.eval = v
    /\ e.type = LowerBound => v >= e.eval
    /\ e.type = UpperBound => v <= e.eval

\* C4: as long as no search has been cancelled, every entry that ab wrote at a
\* depth d >= 1 bounds the depth-d negamax value of its position the way its
\* type says.
C4_BoundSemantics ==
    ~stop => \A p \in Positions :
                (cache[p].found /\ cache[p].depth >= 1)
                    => BoundHolds(cache[p], Negamax(p, cache[p].depth))

\* The same with a single worker: the entries of one uncancelled thread.
C4_BoundSemanticsOneThread == threads = 1 => C4_BoundSemantics

\* Every spawned worker has handed over both values and its goroutine has ended.
AllCollected == \A w \in Workers : w <= threads => wpc[w] = "exit"

\* C5: under fair scheduling, once SearchTimeout is blocked offering the signal
\* on halt, Search returns with every spawned worker collected and exactly one
\* bestmove line printed; never is a second bestmove line printed.
C5_CancelTerminates ==
    /\ [](Len(bestmoves) <= 1)
    /\ (tpc = "send") ~> (dpc = "done" /\ AllCollected /\ Len(bestmoves) = 1)

\* Search has returned after a cancellation that cut short a depth searched by
\* more than one worker.
C5_Witness ==
    dpc = "done" /\ threads > 1 /\ interrupted # {} /\ AllCollected /\ Len(bestmoves) = 1

\* An info line with a mate score has been printed.
MateReported ==
    \E k \in 1..Len(infos) : infos[k].score <= negInf \/ infos[k].score >= posInf

\* C6: once a depth has reported a mate score, no further depth is started and
\* no further info line is printed; a bestmove line is printed only in the step
\* that receives the signal from halt, and it names that depth's move.
C6_MateWaitsForHalt ==
    /\ [](MateReported /\ bestmoves # <<>>
            => stop /\ bestmoves = <<infos[Len(infos)].pv[1]>>)
    /\ [][MateReported =>
            /\ i' = i /\ infos' = infos /\ stack' = stack
            /\ bestmoves' # bestmoves => (tpc = "send" /\ tpc' = "done" /\ dpc' = "done")]_vars

\* After a mate score the signal has arrived and the bestmove has been announced.
C6_Witness == MateReported /\ dpc = "done" /\ Len(bestmoves) = 1 /\ bestmoves[1] # NullMove

\* C7: when Search returns because the stop flag was set when depth i >= 2 was
\* collected, the bestmove it prints is the first move of the info line of
\* depth i - 1, the last one printed; at i = 1 no info line has been printed.
C7_BestmoveIsPreviousDepth ==
    (dpc = "done" /\ ~MateReported) =>
        /\ Len(bestmoves) = 1
        /\ Len(infos) = i - 1
        /\ i >= 2 => /\ infos[i - 1].depth = i - 1
                     /\ bestmoves[1] = infos[i - 1].pv[1]

\* Search was cancelled during a depth after the first.
C7_Witness == dpc = "done" /\ ~MateReported /\ i >= 2 /\ bestmoves # <<>>

\* C8: whenever Search has returned on a root with a legal move, the bestmove it
\* printed is a legal move of the root.
C8_BestmoveLegal ==
    (dpc = "done" /\ Len(GenerateLegalMoves(root)) > 0)
        => \A k \in 1..Len(bestmoves) : IsLegal(root, bestmoves[k])

\* every move of pv is legal on the board reached by the moves before it
RECURSIVE LineLegal(_, _)
LineLegal(b, pv) ==
    pv = <<>> \/ (IsLegal(b, Head(pv)) /\ LineLegal(Apply(b, Head(pv)), Tail(pv)))

\* C9: every move of every principal variation printed, the root's best move
\* included, is legal on the position reached by the moves before it.
C9_PvLegal == \A k \in 1..Len(infos) : LineLegal(root, infos[k].pv)

\* The same on the roots that have a legal move.
C9_PvLegalRootHasMove == Len(GenerateLegalMoves(root)) > 0 => C9_PvLegal

\* The side to move has no legal move and is in check.
IsCheckmate(b) == Len(GenerateLegalMoves(b)) = 0 /\ InCheck(b)

\* C10: every score ab returns for a position that is not a checkmate lies
\* strictly between the sentinels (the evaluator's values do).
C10_ScoreInsideSentinels ==
    \A w \in Workers :
        (lastAb[w] # NoAb /\ ~IsCheckmate(lastAb[w].b))
            => (negInf < lastAb[w].score /\ lastAb[w].score < posInf)

\* The same for the returns made while no cancellation has happened.
C10_ScoreInsideSentinelsUncancelled == ~stop => C10_ScoreInsideSentinels

\* the int16 values whose negation is representable without wrapping
Negatable(x) == -32767 <= x /\ x <= 32767

\* C11: every 16-bit value that ab or quiesce negates lies in -32767..32767,
\* and the sentinels plus or minus 1 are int16 values.  The values negated are
\* the window bounds of a frame that calls a child (lines 200, 260) and the
\* scores returned to it (lines 201, 260); a returned score is the score of the
\* latest return of ab, a window bound or stand-pat score of a frame, a score
\* of the table, a static evaluation, or negInf.
C11_NegationInRange ==
    /\ \A w \in Workers :
          /\ \A k \in 1..Len(stack[w]) :
                /\ Negatable(stack[w][k].alpha) /\ Negatable(stack[w][k].beta)
                /\ Negatable(stack[w][k].bestVal) /\ Negatable(stack[w][k].standPat)
          /\ Negatable(lastAb[w].score) /\ Negatable(res[w].eval)
    /\ \A p \in Positions : Negatable(cache[p].eval) /\ Negatable(Evaluate(p))
    /\ Negatable(negInf) /\ Negatable(posInf)
    /\ -32768 <= negInf - 1 /\ posInf + 1 <= 32767

\* An ab called with a negated window has received the score of its last child,
\* negated it and taken it as its best value.
C11_Witness ==
    \E w \in Workers :
        /\ Len(stack[w]) >= 2 /\ lastAb[w] # NoAb
        /\ Top(w).fn = "ab" /\ Top(w).pc = "poststop"
        /\ Top(w).bestVal = Neg16(lastAb[w].score) /\ Top(w).bestVal # 0
        /\ Top(w).beta = Neg16(stack[w][Len(stack[w]) - 1].alpha)

\* worker w is about to execute the Put of line 225 and does so in this step
PutStep(w) ==
    /\ wpc[w] = "run" /\ stack[w] # <<>> /\ stack'[w] # stack[w]
    /\ Top(w).fn = "ab" /\ Top(w).pc = "put"

\* the bound type of score against the window (lo, hi), spelled out
Classify(score, lo, hi) ==
    IF score <= lo THEN UpperBound ELSE IF score >= hi THEN LowerBound ELSE Exact

\* C12 as stated: the bound type ab writes is bestVal classified against the
\* alpha and the beta the call received at entry, before any tightening by the
\* table.
C12_TypeAgainstEntryWindow ==
    [][\A w \in Workers :
          PutStep(w) => cache'[Top(w).b].type =
                           Classify(Top(w).bestVal, Top(w).alphaIn, Top(w).betaIn)]_vars

\* C12, amended: the bound type ab writes is bestVal classified against alpha
\* and beta as they are after the tightening by the table entry (alpha0 is
\* taken at line 190, after lines 176-179).
C12_TypeAgainstTightenedWindow ==
    [][\A w \in Workers :
          PutStep(w) => cache'[Top(w).b].type =
                           Classify(Top(w).bestVal, Top(w).alpha0, Top(w).beta)]_vars

\* An entry has been written by a node whose alpha the table had raised, without
\* a cutoff, above the alpha it was called with.
C12_Witness ==
    /\ cache["R"].found /\ cache["R"].type = UpperBound /\ cache["R"].eval = 3
    /\ \E w \in Workers : lastAb[w] = [b |-> "R", score |-> 3] /\ ~res[w].prov

\* C13: a worker that has read the stop flag as true, or has received from halt,
\* enters at most one further call of ab or quiesce before its top-level ab
\* returns.
C13_OneNodeAfterStop == \A w \in Workers : after[w] <= 1

\* every move of line is the move of a table entry of non-zero depth for the
\* position it is played on, and is legal there
RECURSIVE PvFromTable(_, _)
PvFromTable(b, line) ==
    \/ line = <<>>
    \/ /\ Get(b).found /\ Get(b).depth # 0
       /\ Get(b).move = Head(line) /\ IsLegal(b, Head(line))
       /\ PvFromTable(Apply(b, Head(line)), Tail(line))

\* C14 as stated: for a search of depth d, lookupPv appends at most d moves from
\* the table after the root's best move, and each of them comes from an entry
\* of non-zero depth of the position reached (it stops at the first position
\* without an entry or with a stored depth of 0).
C14_AtMostDepthMoves ==
    dpc = "done" =>
        /\ Len(infos[1].pv) - 1 <= infos[1].depth
        /\ PvFromTable(Apply(root, infos[1].pv[1]), Tail(infos[1].pv))

\* C14, amended: the loop of line 26 runs depth + 1 times, so lookupPv appends
\* at most d + 1 moves from the table; the rest as stated.
C14_AtMostDepthPlusOneMoves ==
    dpc = "done" =>
        /\ Len(infos[1].pv) - 1 <= infos[1].depth + 1
        /\ PvFromTable(Apply(root, infos[1].pv[1]), Tail(infos[1].pv))

\* The table had a usable entry for every position of the repeating line: the
\* line printed has depth + 1 moves after the root's best move.
C14_Witness ==
    dpc = "done" /\ infos # <<>> /\ Len(infos[1].pv) - 1 = infos[1].depth + 1

\* C15: once the stop flag of the search is set, SearchTimeout is not sending
\* on halt: it neither starts the send nor stays blocked in it.
C15_TimerSilentAfterStop == stop => tpc # "send"

\* C16: without cancellation every call of ab with depth d >= 0 terminates.
\* The calls of ab on a stack have depths i down to 0, the calls of quiesce
\* below them depths 0 down to -QuiesceCutoffDepth - 1 (a quiesce whose depth is
\* below -QuiesceCutoffDepth makes no call), and every top-level call returns.
C16_AbTerminates ==
    /\ [](\A w \in Workers :
            /\ Len(stack[w]) <= (i + 1) + (QuiesceCutoffDepth + 2)
            /\ \A k \in 1..Len(stack[w]) :
                  /\ stack[w][k].fn = "ab" => stack[w][k].depth \in 0..i
                  /\ stack[w][k].fn = "q" =>
                        /\ stack[w][k].depth <= 0
                        /\ stack[w][k].depth >= 0 - QuiesceCutoffDepth - 1
                  /\ k > 1 => stack[w][k].depth \in
                                 {stack[w][k - 1].depth - 1, stack[w][k - 1].depth})
    /\ \A w \in Workers : (wpc[w] = "run") ~> (wpc[w] = "exit")

\* A quiesce below the cutoff depth has returned its stand-pat score although
\* its position has a capture, and the top-level call above it has returned.
C16_Witness ==
    /\ root = "K" /\ i = 1 /\ dpc = "check" /\ ~stop
    /\ cache["X"].found /\ cache["Y"].found
    /\ evals[1] \in {4, 6}

\* C17: while Search is neither cancelled nor has found a mate, the depth
\* passed to the workers is positive and one more than the previous
\* iteration's, whatever the width of the counter.
C17_DepthGrows == [][i' = i + 1 /\ i' > 0]_i

\* C18: every (move, score) pair the driver has stored for a depth was sent by
\* one and the same worker, and a received move is followed by the score of
\* the worker that sent it: while the driver waits for the score, that worker
\* is the only one at its send on evalChan.
C18_PairFromOneWorker ==
    /\ \A k \in 1..threads :
          /\ k <= thread => /\ sender[k].move \in 1..threads
                            /\ sender[k].eval = sender[k].move
                            /\ moves[k] = res[sender[k].move].move
                            /\ evals[k] = res[sender[k].move].eval
          /\ k > thread => sender[k].eval = 0
    /\ dpc = "recvEval" =>
          \A w \in Workers : wpc[w] = "sendEval" <=> w = sender[thread + 1].move
    /\ dpc # "recvEval" => \A w \in Workers : wpc[w] # "sendEval"

\* Two workers with different results have both been received from, the
\* second worker first.
C18_Witness ==
    /\ threads = 2 /\ thread = 2 /\ dpc = "check"
    /\ sender[1].move = 2 /\ sender[2].move = 1
    /\ res[1].eval # res[2].eval

\* C19: for every board and every remaining clock time CalculateAllowedTime
\* does not divide by zero and returns a strictly positive allowance, so that
\* SearchTimeout, given the result, arms a halt signal.
C19_PositiveAllowance ==
    clock.called => ~clock.panic /\ clock.allowed > 0 /\ tpc = "sleep"

=============================================================================
